---- MODULE Spec2Model ----
(***************************************************************************)
(* Model of the backwards scheduler of Anchor                              *)
(* (src-tauri/src/scheduler.rs, calculate_backwards_schedule).             *)
(*                                                                         *)
(* A behaviour is one call: Init draws the ScheduleRequest, and each       *)
(* action is one step of the routine (the empty check, one iteration of    *)
(* the anchors loop, one iteration of the backward worklist loop, the      *)
(* completeness check, one iteration of the forward worklist loop, the     *)
(* assembler).  Timestamps are whole seconds counted from                  *)
(* 2026-01-01T00:00:00; a date string is a record of its shape and fields. *)
(***************************************************************************)
EXTENDS Integers, Sequences, FiniteSets, TLC

\* ------------------------------------------------------------- bounds
\* Largest number of tasks in a request.
MaxTasks == 3
\* Largest length of one task's dependencies list.
MaxDeps == 2
\* Largest number of dependency entries in a request, over all its tasks.
MaxEdges == 3
\* Largest number of entries of the anchors map.
MaxAnchors == 3
\* Largest number of dependency entries in a request whose anchors loop
\* fails (the error returned does not depend on the dependencies).
MaxEdgesRejected == 1
\* Largest duration, in days, of a task of a diamond request.
MaxDiamondDays == 3
\* Largest number of tasks in a request whose passthrough attributes vary.
MaxPassthroughTasks == 2

\* ------------------------------------------------------------- helpers
Put(m, k, v) == [x \in (DOMAIN m) \cup {k} |-> IF x = k THEN v ELSE m[x]]

SeqsUpTo(S, n) == UNION {[1..k -> S] : k \in 0..n}

Min(S) == CHOOSE x \in S : \A y \in S : x <= y

\* Option<i64>: None is the empty sequence, Some(v) the sequence <<v>>.
None == << >>
Some(v) == <<v>>

\* ------------------------------------------------------------- time
SecondsPerMinute == 60
SecondsPerDay == 86400
EndOfDaySeconds == 86399

\* chrono::Duration::minutes / Duration::days, in seconds.
DurationMinutes(m) == m * SecondsPerMinute
DurationDays(d) == d * SecondsPerDay

\* NaiveDateTime::MAX: later than every timestamp a request of the model
\* can produce.
NaiveDateTimeMAX == 2000000000

DateOnly(d) == [fmt |-> "date", day |-> d, secs |-> 0]
DateTime(d, s) == [fmt |-> "datetime", day |-> d, secs |-> s]
BadDate == [fmt |-> "bad", day |-> 0, secs |-> 0]

\* parse_date_string: "%Y-%m-%dT%H:%M:%S" first, then "%Y-%m-%d" taken as
\* 23:59:59 of that day; anything else is an error.
ParseErr == <<"Err">>
parse_date_string(s) ==
    IF s.fmt = "datetime" THEN <<"Ok", s.day * SecondsPerDay + s.secs>>
    ELSE IF s.fmt = "date" THEN <<"Ok", s.day * SecondsPerDay + EndOfDaySeconds>>
    ELSE ParseErr

\* NaiveDateTime::format("%Y-%m-%dT%H:%M:%S")
format_datetime(t) == DateTime(t \div SecondsPerDay, t % SecondsPerDay)

\* A variant of num_minutes that counts whole days.
num_days(d) ==
    IF d >= 0 THEN d \div SecondsPerDay ELSE -((-d) \div SecondsPerDay)

\* chrono::Duration::num_minutes: whole minutes, truncated toward zero.
num_minutes(d) ==
    IF d >= 0 THEN d \div SecondsPerMinute ELSE -((-d) \div SecondsPerMinute)

\* ------------------------------------------------------------- requests
TaskIds == 1..MaxTasks
\* An identifier that is the id of no task.
UnknownId == MaxTasks + 1

\* (duration_days, duration_minutes) of the tasks of the model: one day,
\* 30 minutes and 0 minutes overriding one day, and a negative day count.
DefaultDuration == <<1, None>>
Durations == { DefaultDuration, <<1, Some(30)>>, <<1, Some(0)>>, <<-1, None>> }

\* The anchor strings of the model: "2026-01-10", "2026-01-12T10:00:00" and
\* a string of neither shape.
ValidAnchorStrings == { DateOnly(10), DateTime(12, 36000) }
AnchorStrings == ValidAnchorStrings \cup { BadDate }

\* The passthrough attributes of a task: completed, notes (Option<String>),
\* is_milestone and subtasks (a list of SubTask); DefaultPassthrough is what
\* `#[serde(default)]` gives.
DefaultPassthrough ==
    [ completed |-> FALSE, notes |-> None, is_milestone |-> FALSE,
      subtasks |-> << >> ]
SubTaskOne == [ id |-> "s1", name |-> "Sub", completed |-> TRUE ]
Passthroughs ==
    { DefaultPassthrough,
      [ completed |-> TRUE, notes |-> Some("note"), is_milestone |-> TRUE,
        subtasks |-> <<SubTaskOne>> ],
      [ completed |-> TRUE, notes |-> None, is_milestone |-> FALSE,
        subtasks |-> <<SubTaskOne>> ],
      [ completed |-> FALSE, notes |-> Some("note"), is_milestone |-> TRUE,
        subtasks |-> << >> ] }
WithPassthrough(task, p) ==
    [ task EXCEPT !.completed = p.completed, !.notes = p.notes,
                  !.is_milestone = p.is_milestone, !.subtasks = p.subtasks ]

MkTask(i, id, dur, deps) ==
    [ id |-> id, name |-> <<"Task", i>>,
      duration_days |-> dur[1], duration_minutes |-> dur[2],
      dependencies |-> deps,
      completed |-> DefaultPassthrough.completed,
      notes |-> DefaultPassthrough.notes,
      is_milestone |-> DefaultPassthrough.is_milestone,
      subtasks |-> DefaultPassthrough.subtasks ]

\* Identifier lists up to renaming: the i-th id is at most one more than
\* the number of distinct ids before it (1; 1 2; 1 1; 1 2 1; ...), so both
\* unique and repeated ids occur.
IdLists(n) ==
    { ids \in [1..n -> TaskIds] :
        \A i \in 1..n : ids[i] <= 1 + Cardinality({ids[j] : j \in 1..(i-1)}) }

RECURSIVE SumLen(_)
SumLen(ss) == IF ss = << >> THEN 0 ELSE Len(Head(ss)) + SumLen(Tail(ss))

\* The dependencies lists of n tasks, with at most cap entries in all:
\* known ids and the unknown id, in any order, repeats included.
DepLists(n, cap) ==
    { deps \in [1..n -> SeqsUpTo((1..n) \cup {UnknownId}, MaxDeps)] :
        SumLen(deps) <= cap }

\* Every anchor key is a task id and every anchor string parses.
AnchorsValid(n, ids, a) ==
    /\ DOMAIN a \subseteq {ids[i] : i \in 1..n}
    /\ \A k \in DOMAIN a : a[k] \in ValidAnchorStrings

AnchorMaps(keys) ==
    UNION { [S -> AnchorStrings] :
              S \in {T \in SUBSET keys : Cardinality(T) <= MaxAnchors} }

\* The requests for which the routine can return a schedule.  Every anchor
\* key is a task id and every anchor string parses; every sink is anchored;
\* a task shadowed by a later task of the same id names no task id (the
\* counter of an id it named would never reach zero); an unknown id a
\* task names is also named by a shadowed task (its counter would
\* otherwise reach zero and the id be looked up); the dependencies of the
\* unshadowed tasks have no cycle.  With unique ids no task is shadowed:
\* every dependency is a task id and the relation is acyclic.  (The routine
\* never branches on a duration, so whether it returns a schedule does not
\* depend on them; OkOnlyIfSchedulable checks that no other request does.)
Schedulable(n, ids, deps, a) ==
    LET known == {ids[i] : i \in 1..n}
        provs(i) == {deps[i][j] : j \in DOMAIN deps[i]}
        shadowed == {i \in 1..n : \E j \in (i+1)..n : ids[j] = ids[i]}
        live == (1..n) \ shadowed
    IN  /\ AnchorsValid(n, ids, a)
        /\ \A k \in known : (\A i \in 1..n : k \notin provs(i)) => k \in DOMAIN a
        /\ \A i \in shadowed : provs(i) \cap known = {}
        /\ \A i \in live : \A p \in provs(i) \ known :
              \E j \in shadowed : p \in provs(j)
        /\ \E rank \in [known -> 1..n] :
              \A i \in live : \A p \in provs(i) \cap known : rank[p] < rank[ids[i]]

\* The durations of the n tasks of a request: all of Durations for a
\* schedulable request of unique ids, the day counts among them where an
\* id repeats, and the default duration for every task of a request that
\* is not schedulable.
DayDurations == { d \in Durations : d[2] = None }
DurationLists(n, ids, deps, a) ==
    IF ~Schedulable(n, ids, deps, a) THEN {[i \in 1..n |-> DefaultDuration]}
    ELSE IF Cardinality({ids[i] : i \in 1..n}) = n THEN [1..n -> Durations]
    ELSE [1..n -> DayDurations]

\* The requests of the model with n tasks.
\* The requests of n tasks whose passthrough attributes are those of pass.
IsRequestOf(r, n, pass) ==
    \E deps \in DepLists(n, MaxEdges), ids \in IdLists(n) :
      \E a \in AnchorMaps({ids[i] : i \in 1..n} \cup {UnknownId}) :
        /\ SumLen(deps) <= IF AnchorsValid(n, ids, a)
                           THEN MaxEdges ELSE MaxEdgesRejected
        /\ \E durs \in DurationLists(n, ids, deps, a) :
          r = [ tasks |-> [i \in 1..n |->
                             WithPassthrough(MkTask(i, ids[i], durs[i], deps[i]),
                                             pass[i])],
                anchors |-> a ]

\* The requests of n tasks with the default passthrough attributes.
IsRequest(r, n) == IsRequestOf(r, n, [i \in 1..n |-> DefaultPassthrough])

\* ------------------------------------------------------------- state
VARIABLES
    request,                \* the ScheduleRequest of this call
    pc,                     \* where the routine is
    task_map,               \* HashMap<String, Task>
    dependents,             \* HashMap<String, Vec<String>>: provider -> consumers
    late_finish,            \* HashMap<String, NaiveDateTime>
    unscheduled_consumers,  \* HashMap<String, usize>
    queue,                  \* Vec<String>, popped from the back
    visited_backward,       \* HashSet<String>
    backward_schedule,      \* HashMap<String, (start, end)>
    project_start,
    early_start,            \* HashMap<String, NaiveDateTime>
    early_finish,           \* HashMap<String, NaiveDateTime>
    in_degree,              \* HashMap<String, usize>
    forward_queue,          \* Vec<String>, popped from the back
    visited_forward,        \* HashSet<String>
    result,                 \* the returned Result, or <<"Running">>
    lib,                    \* the locals of the command of lib.rs
    listing                 \* list_projects of project.rs: now and the metadata

vars ==
    << request, pc, task_map, dependents, late_finish, unscheduled_consumers, queue,
       visited_backward, backward_schedule, project_start, early_start,
       early_finish, in_degree, forward_queue, visited_forward, result, lib,
       listing >>

\* Every variable of the routine of scheduler.rs.
scheduler_vars ==
    << request, pc, task_map, dependents, late_finish, unscheduled_consumers, queue,
       visited_backward, backward_schedule, project_start, early_start,
       early_finish, in_degree, forward_queue, visited_forward, result >>

Running == <<"Running">>
Ok(list) == <<"Ok", list>>
Err(kind, payload) == <<"Err", kind, payload>>

\* task_map, collected from the tasks: a later task replaces an earlier
\* one of the same id.
TaskMapOf(tasks) ==
    [ k \in {tasks[i].id : i \in DOMAIN tasks} |->
        tasks[CHOOSE i \in DOMAIN tasks :
                /\ tasks[i].id = k
                /\ \A j \in DOMAIN tasks : tasks[j].id = k => j <= i] ]

\* The (provider, consumer) pairs in the order the builder pushes them.
RECURSIVE EdgeSeq(_)
EdgeSeq(tasks) ==
    IF tasks = << >> THEN << >>
    ELSE LET t == tasks[Len(tasks)]
         IN  EdgeSeq(SubSeq(tasks, 1, Len(tasks) - 1))
               \o [j \in 1..Len(t.dependencies) |-> <<t.dependencies[j], t.id>>]

\* A variant of DependentsOf that keeps no entry for an id that is no task.
DependentsOfKnown(tasks) ==
    LET es == EdgeSeq(tasks)
        known == {tasks[i].id : i \in DOMAIN tasks}
    IN  [ k \in {es[i][1] : i \in DOMAIN es} \cap known |->
            LET IsOf(e) == e[1] = k
                sel == SelectSeq(es, IsOf)
            IN  [i \in 1..Len(sel) |-> sel[i][2]] ]

\* dependents: provider -> consumers, built from every dependencies list.
DependentsOf(tasks) ==
    LET es == EdgeSeq(tasks)
    IN  [ k \in {es[i][1] : i \in DOMAIN es} |->
            LET IsOf(e) == e[1] = k
                sel == SelectSeq(es, IsOf)
            IN  [i \in 1..Len(sel) |-> sel[i][2]] ]

\* A variant of DurationOf that ignores duration_minutes.
DurationOfDaysOnly(task) == DurationDays(task.duration_days)

\* The duration of a task: duration_minutes when present, else duration_days.
DurationOf(task) ==
    IF task.duration_minutes # None
    THEN DurationMinutes(task.duration_minutes[1])
    ELSE DurationDays(task.duration_days)

\* The command of lib.rs is not called.
LibIdle == [ pc |-> "idle" ]
\* list_projects has not read the project.
ListIdle == [ pc |-> "idle" ]

\* The state at entry for the request held in `request`.
Started ==
    /\ pc = "start"
    /\ lib = LibIdle
    /\ listing = ListIdle
    /\ task_map = TaskMapOf(request.tasks)
    /\ dependents = << >>
    /\ late_finish = << >>
    /\ unscheduled_consumers = << >>
    /\ queue = << >>
    /\ visited_backward = {}
    /\ backward_schedule = << >>
    /\ project_start = 0
    /\ early_start = << >>
    /\ early_finish = << >>
    /\ in_degree = << >>
    /\ forward_queue = << >>
    /\ visited_forward = {}
    /\ result = Running

Init ==
    /\ \E n \in 0..MaxTasks : IsRequest(request, n)
    /\ Started

\* The diamond A, B [A], C [A], D [B, C] anchored at D, with durations of
\* 1..MaxDiamondDays days.
DiamondTasks(d) ==
    << MkTask(1, 1, <<d[1], None>>, << >>),
       MkTask(2, 2, <<d[2], None>>, <<1>>),
       MkTask(3, 3, <<d[3], None>>, <<1>>),
       MkTask(4, 4, <<d[4], None>>, <<2, 3>>) >>
IsDiamondRequest(r) ==
    \E d \in [1..4 -> 1..MaxDiamondDays], a \in ValidAnchorStrings :
        r = [ tasks |-> DiamondTasks(d), anchors |-> (4 :> a) ]

\* The requests of up to MaxPassthroughTasks tasks, with every choice of
\* passthrough attributes.
InitPassthrough ==
    /\ \E n \in 0..MaxPassthroughTasks :
         \E pass \in [1..n -> Passthroughs] : IsRequestOf(request, n, pass)
    /\ Started

\* The requests of Init and the diamonds.
InitDiamond ==
    /\ \/ \E n \in 0..MaxTasks : IsRequest(request, n)
       \/ IsDiamondRequest(request)
    /\ Started

Return(r) ==
    /\ result' = r
    /\ pc' = "done"

\* A variant of IsEmptyProject without the short-circuit.
NeverEmptyProject(tasks) == FALSE

\* `request.tasks.is_empty()`
IsEmptyProject(tasks) == tasks = << >>

\* usize arithmetic: `*count -= 1` on a counter that is 0 panics where
\* overflow checks are compiled in and wraps to usize::MAX where they are
\* not.  A counter holds a residue modulo 2^64, so -1 stands for usize::MAX.
OverflowOutcome(underflow) ==
    \E overflow_checks \in IF underflow THEN BOOLEAN ELSE {FALSE} :
        IF overflow_checks
        THEN Return(<<"Panic", "attempt to subtract with overflow">>)
        ELSE UNCHANGED << pc, result >>

\* The empty check: an empty tasks list returns Ok([]) at once, before the
\* anchors are looked at.
EmptyCheck ==
    /\ pc = "start"
    /\ IsEmptyProject(request.tasks)
    /\ Return(Ok(<< >>))
    /\ UNCHANGED << lib, listing, request, task_map, dependents, late_finish, unscheduled_consumers, queue,
                    visited_backward, backward_schedule, project_start,
                    early_start, early_finish, in_degree, forward_queue,
                    visited_forward >>

\* A variant of InvalidAnchors without the membership check of the key.
UnparsableAnchors(anchors, tmap) ==
    { k \in DOMAIN anchors : parse_date_string(anchors[k]) = ParseErr }

\* The anchors entries on which the anchors loop returns an error: the key
\* is no task id, or (checked second) the string does not parse.
InvalidAnchors(anchors, tmap) ==
    { k \in DOMAIN anchors :
        k \notin DOMAIN tmap \/ parse_date_string(anchors[k]) = ParseErr }

\* The error of the anchors loop at entry task_id.
AnchorError(anchors, tmap, task_id) ==
    IF task_id \notin DOMAIN tmap
    THEN Err("AnchorTaskNotFound", task_id)
    ELSE Err("InvalidAnchorDate", task_id)

\* late_finish after the anchors loop ran over every entry.
SeedLateFinish(anchors) ==
    [k \in DOMAIN anchors |-> parse_date_string(anchors[k])[2]]

\* A variant of SinkQueue that starts from every task.
AllTasksQueue(tasks, deps) == [i \in 1..Len(tasks) |-> tasks[i].id]

\* The sinks, in input order: the tasks whose id no dependencies list names.
SinkQueue(tasks, deps) ==
    LET IsSink(t) == t.id \notin DOMAIN deps
        sel == SelectSeq(tasks, IsSink)
    IN  [i \in 1..Len(sel) |-> sel[i].id]

\* dependents is built, then the anchors loop fails:
\* `for (task_id, date_str) in &request.anchors`
\* visits the entries of the hash map in any order and returns at the
\* first invalid one, so any invalid entry can be the one reported.
AnchorFail ==
    /\ pc = "start"
    /\ ~IsEmptyProject(request.tasks)
    /\ dependents' = DependentsOf(request.tasks)
    /\ \E task_id \in InvalidAnchors(request.anchors, task_map) :
         Return(AnchorError(request.anchors, task_map, task_id))
    /\ UNCHANGED << lib, listing, request, task_map, late_finish, unscheduled_consumers, queue,
                    visited_backward, backward_schedule, project_start,
                    early_start, early_finish, in_degree, forward_queue,
                    visited_forward >>

\* dependents is built and the anchors loop completes: late_finish is seeded
\* from every anchor, the consumer counters are taken from dependents and
\* the queue holds the sinks.
BackwardInit ==
    /\ pc = "start"
    /\ ~IsEmptyProject(request.tasks)
    /\ InvalidAnchors(request.anchors, task_map) = {}
    /\ dependents' = DependentsOf(request.tasks)
    /\ late_finish' = SeedLateFinish(request.anchors)
    /\ unscheduled_consumers' = [k \in DOMAIN dependents' |-> Len(dependents'[k])]
    /\ queue' = SinkQueue(request.tasks, dependents')
    /\ pc' = "backward"
    /\ UNCHANGED << lib, listing, request, task_map, visited_backward, backward_schedule,
                    project_start, early_start, early_finish, in_degree,
                    forward_queue, visited_forward, result >>

\* Variants of Tighten: one overwrites the entry whatever it holds, one
\* never lowers it.
TightenAlways(entry, ls) == ls
TightenNever(entry, ls) == entry

\* `if ls < *entry { *entry = ls; }`
Tighten(entry, ls) == IF ls < entry THEN ls ELSE entry

\* `for provider_id in &task.dependencies`: tighten the provider's late
\* finish to ls and count this consumer off.  Counters are usize: a
\* decrement of 0 is recorded in `underflow`.
RECURSIVE Propagate(_, _, _)
Propagate(deps, ls, st) ==
    IF deps = << >> THEN st
    ELSE LET provider_id == Head(deps)
             entry == IF provider_id \in DOMAIN st.late_finish
                      THEN st.late_finish[provider_id]
                      ELSE NaiveDateTimeMAX
             lf2 == Put(st.late_finish, provider_id, Tighten(entry, ls))
             has == provider_id \in DOMAIN st.unscheduled_consumers
             count == IF has THEN st.unscheduled_consumers[provider_id] - 1
                      ELSE 0
         IN  Propagate(Tail(deps), ls,
               [ late_finish |-> lf2,
                 unscheduled_consumers |->
                    IF has THEN Put(st.unscheduled_consumers, provider_id, count)
                    ELSE st.unscheduled_consumers,
                 queue |-> IF has /\ count = 0
                           THEN Append(st.queue, provider_id) ELSE st.queue,
                 underflow |-> st.underflow \/ (has /\ count = -1) ])

\* A variant of LateFinishOf that reads an absent entry as the latest date.
LateFinishOrMax(lf_map, task_id) ==
    Some(IF task_id \in DOMAIN lf_map THEN lf_map[task_id] ELSE NaiveDateTimeMAX)

\* `late_finish.get(&task_id)`: the late finish set by an anchor or by the
\* consumers, or none.
LateFinishOf(lf_map, task_id) ==
    IF task_id \in DOMAIN lf_map THEN Some(lf_map[task_id]) ELSE None

\* `let ls = lf - duration`
LateStartOf(lf, task) == lf - DurationOf(task)

\* One iteration of `while let Some(task_id) = queue.pop()`.
BackwardStep ==
    /\ pc = "backward"
    /\ queue # << >>
    /\ LET task_id == queue[Len(queue)]
           popped == SubSeq(queue, 1, Len(queue) - 1)
       IN  IF task_id \in visited_backward
           THEN /\ queue' = popped
                /\ UNCHANGED << late_finish, unscheduled_consumers,
                                visited_backward, backward_schedule, pc, result >>
           ELSE IF task_id \notin DOMAIN task_map
           THEN /\ queue' = popped
                /\ Return(Err("TaskNotFound", task_id))
                /\ UNCHANGED << late_finish, unscheduled_consumers,
                                visited_backward, backward_schedule >>
           ELSE IF LateFinishOf(late_finish, task_id) = None
           THEN /\ queue' = popped
                /\ Return(Err("NoEndDateComputed",
                              <<"name", task_map[task_id].name>>))
                /\ UNCHANGED << late_finish, unscheduled_consumers,
                                visited_backward, backward_schedule >>
           ELSE LET task == task_map[task_id]
                    lf == LateFinishOf(late_finish, task_id)[1]
                    ls == LateStartOf(lf, task)
                    st == Propagate(task.dependencies, ls,
                            [ late_finish |-> late_finish,
                              unscheduled_consumers |-> unscheduled_consumers,
                              queue |-> popped,
                              underflow |-> FALSE ])
                IN  /\ backward_schedule' = Put(backward_schedule, task.id, <<ls, lf>>)
                    /\ visited_backward' = visited_backward \cup {task_id}
                    /\ late_finish' = st.late_finish
                    /\ unscheduled_consumers' = st.unscheduled_consumers
                    /\ queue' = st.queue
                    /\ OverflowOutcome(st.underflow)
    /\ UNCHANGED << lib, listing, request, task_map, dependents, project_start, early_start,
                    early_finish, in_degree, forward_queue, visited_forward >>

\* A variant of MissingTasks that reports no task.
NoMissingTasks(tasks, schedule) == << >>

\* A variant of MissingTasks that looks for the missing tasks among the
\* ids the backward pass recorded.
MissingAmongScheduled(tasks, schedule) ==
    LET IsMissing(t) == t.id \notin DOMAIN schedule /\ schedule # << >>
        sel == SelectSeq(tasks, IsMissing)
    IN  [i \in 1..Len(sel) |-> sel[i].name]

\* The names of the tasks the backward pass did not record, in input order.
MissingTasks(tasks, schedule) ==
    LET IsMissing(t) == t.id \notin DOMAIN schedule
        sel == SelectSeq(tasks, IsMissing)
    IN  [i \in 1..Len(sel) |-> sel[i].name]

\* A variant of ProjectStartOf that takes the latest start.
LatestStartOf(schedule) ==
    LET S == {schedule[k][1] : k \in DOMAIN schedule}
    IN  CHOOSE x \in S : \A y \in S : y <= x

\* A variant of ProjectStartOf that takes the earliest end.
EarliestFinishOf(schedule) == Min({schedule[k][2] : k \in DOMAIN schedule})

\* Project start: the earliest start of the backward pass.
ProjectStartOf(schedule) == Min({schedule[k][1] : k \in DOMAIN schedule})

\* A variant of InDegreeOf that counts the distinct dependencies.
InDegreeDistinct(tasks) ==
    [k \in DOMAIN TaskMapOf(tasks) |->
        Cardinality({TaskMapOf(tasks)[k].dependencies[j] :
                       j \in DOMAIN TaskMapOf(tasks)[k].dependencies})]

\* A variant of InDegreeOf that counts at most one dependency.
InDegreeAtMostOne(tasks) ==
    [k \in DOMAIN TaskMapOf(tasks) |->
        IF TaskMapOf(tasks)[k].dependencies = << >> THEN 0 ELSE 1]

\* in_degree: id -> number of dependencies (a later task of the same id
\* replaces an earlier one).
InDegreeOf(tasks) ==
    [k \in DOMAIN TaskMapOf(tasks) |-> Len(TaskMapOf(tasks)[k].dependencies)]

\* The sources, in input order: the tasks with no dependencies.
SourceQueue(tasks) ==
    LET IsSource(t) == t.dependencies = << >>
        sel == SelectSeq(tasks, IsSource)
    IN  [i \in 1..Len(sel) |-> sel[i].id]

\* The queue is empty: the completeness check, the project start and the
\* tables of the forward pass.
CompletenessCheck ==
    /\ pc = "backward"
    /\ queue = << >>
    /\ LET missing_tasks == MissingTasks(request.tasks, backward_schedule)
       IN  IF /\ Cardinality(DOMAIN backward_schedule) # Len(request.tasks)
              /\ missing_tasks # << >>
           THEN /\ Return(Err("NoEndDateComputed", <<"list", missing_tasks>>))
                /\ UNCHANGED << project_start, in_degree, forward_queue >>
           ELSE IF DOMAIN backward_schedule = {}
           THEN /\ Return(Err("CycleDetected", << >>))
                /\ UNCHANGED << project_start, in_degree, forward_queue >>
           ELSE /\ project_start' = ProjectStartOf(backward_schedule)
                /\ in_degree' = InDegreeOf(request.tasks)
                /\ forward_queue' = SourceQueue(request.tasks)
                /\ pc' = "forward"
                /\ UNCHANGED result
    /\ UNCHANGED << lib, listing, request, task_map, dependents, late_finish, unscheduled_consumers,
                    queue, visited_backward, backward_schedule, early_start,
                    early_finish, visited_forward >>

\* A variant of MaxEarlyFinish that keeps the fallback.
ProjectStartOnly(deps, ef, max_ef) == max_ef

\* A variant of MaxEarlyFinish that takes the early finish of the last
\* dependency.
LastEarlyFinish(deps, ef, max_ef) ==
    IF deps # << >> /\ deps[Len(deps)] \in DOMAIN ef
    THEN ef[deps[Len(deps)]] ELSE max_ef

\* ES = max(EF of the dependencies), starting from the project start; a
\* dependency with no early finish yet is skipped.
RECURSIVE MaxEarlyFinish(_, _, _)
MaxEarlyFinish(deps, ef, max_ef) ==
    IF deps = << >> THEN max_ef
    ELSE LET dep == Head(deps)
         IN  MaxEarlyFinish(Tail(deps), ef,
               IF dep \in DOMAIN ef /\ ef[dep] > max_ef THEN ef[dep] ELSE max_ef)

\* `for consumer in consumers`: count this provider off the consumer's
\* in-degree and enqueue the consumer when it reaches zero.
RECURSIVE Release(_, _)
Release(consumers, st) ==
    IF consumers = << >> THEN st
    ELSE LET consumer == Head(consumers)
             has == consumer \in DOMAIN st.in_degree
             degree == IF has THEN st.in_degree[consumer] - 1 ELSE 0
         IN  Release(Tail(consumers),
               [ in_degree |-> IF has THEN Put(st.in_degree, consumer, degree)
                               ELSE st.in_degree,
                 forward_queue |-> IF has /\ degree = 0
                                   THEN Append(st.forward_queue, consumer)
                                   ELSE st.forward_queue,
                 underflow |-> st.underflow \/ (has /\ degree = -1) ])

\* One iteration of `while let Some(task_id) = forward_queue.pop()`.
ForwardStep ==
    /\ pc = "forward"
    /\ forward_queue # << >>
    /\ LET task_id == forward_queue[Len(forward_queue)]
           popped == SubSeq(forward_queue, 1, Len(forward_queue) - 1)
       IN  IF task_id \notin DOMAIN task_map
           THEN /\ forward_queue' = popped
                /\ visited_forward' = visited_forward \cup {task_id}
                /\ Return(<<"Panic", "unwrap on None">>)
                /\ UNCHANGED << early_start, early_finish, in_degree >>
           ELSE LET task == task_map[task_id]
                    es == IF task.dependencies = << >> THEN project_start
                          ELSE MaxEarlyFinish(task.dependencies, early_finish,
                                              project_start)
                    ef == es + DurationOf(task)
                    st == Release(IF task_id \in DOMAIN dependents
                                  THEN dependents[task_id] ELSE << >>,
                            [ in_degree |-> in_degree,
                              forward_queue |-> popped,
                              underflow |-> FALSE ])
                IN  /\ visited_forward' = visited_forward \cup {task_id}
                    /\ early_start' = Put(early_start, task_id, es)
                    /\ early_finish' = Put(early_finish, task_id, ef)
                    /\ in_degree' = st.in_degree
                    /\ forward_queue' = st.forward_queue
                    /\ OverflowOutcome(st.underflow)
    /\ UNCHANGED << lib, listing, request, task_map, dependents, late_finish, unscheduled_consumers,
                    queue, visited_backward, backward_schedule, project_start >>

\* The ScheduledTask of one input task: start/end are the late dates, slack
\* is LS - ES in whole minutes (ES falls back to LS).
ScheduledTaskOf(task, schedule, es_map) ==
    LET ls == schedule[task.id][1]
        lf == schedule[task.id][2]
        es == IF task.id \in DOMAIN es_map THEN es_map[task.id] ELSE ls
        slack_minutes == num_minutes(ls - es)
    IN  [ id |-> task.id, name |-> task.name,
          start_date |-> format_datetime(ls),
          end_date |-> format_datetime(lf),
          completed |-> task.completed,
          notes |-> task.notes,
          is_critical |-> slack_minutes <= 0,
          slack_minutes |-> slack_minutes,
          is_milestone |-> task.is_milestone ]

\* A variant of FinalSchedule that lists the records in the order of their
\* start dates, ties by input order.
FinalScheduleSorted(tasks, schedule, es_map) ==
    LET IsScheduled(t) == t.id \in DOMAIN schedule
        sel == SelectSeq(tasks, IsScheduled)
        Before(i, j) == \/ schedule[sel[i].id][1] < schedule[sel[j].id][1]
                        \/ schedule[sel[i].id][1] = schedule[sel[j].id][1] /\ i < j
        at(k) == CHOOSE i \in 1..Len(sel) :
                    Cardinality({j \in 1..Len(sel) : Before(j, i)}) = k - 1
    IN  [k \in 1..Len(sel) |-> ScheduledTaskOf(sel[at(k)], schedule, es_map)]

\* final_schedule: one record per input task the backward pass recorded,
\* in input order.
FinalSchedule(tasks, schedule, es_map) ==
    LET IsScheduled(t) == t.id \in DOMAIN schedule
        sel == SelectSeq(tasks, IsScheduled)
    IN  [i \in 1..Len(sel) |-> ScheduledTaskOf(sel[i], schedule, es_map)]

\* The forward queue is empty: combine both passes and return Ok.
Assemble ==
    /\ pc = "forward"
    /\ forward_queue = << >>
    /\ Return(Ok(FinalSchedule(request.tasks, backward_schedule, early_start)))
    /\ UNCHANGED << lib, listing, request, task_map, dependents, late_finish, unscheduled_consumers,
                    queue, visited_backward, backward_schedule, project_start,
                    early_start, early_finish, in_degree, forward_queue,
                    visited_forward >>

Next ==
    \/ EmptyCheck
    \/ AnchorFail
    \/ BackwardInit
    \/ BackwardStep
    \/ CompletenessCheck
    \/ ForwardStep
    \/ Assemble

Spec == Init /\ [][Next]_vars

SpecDiamond == InitDiamond /\ [][Next]_vars

SpecPassthrough == InitPassthrough /\ [][Next]_vars

\* The requests of Init that have unique ids, default durations and no
\* date-time anchor: the requests that differ in their graph, in the keys
\* of their anchors and in whether an anchor parses.
InitGraphs ==
    /\ \E n \in 0..MaxTasks : IsRequest(request, n)
    /\ \A i, j \in DOMAIN request.tasks :
          request.tasks[i].id = request.tasks[j].id => i = j
    /\ \A i \in DOMAIN request.tasks :
          <<request.tasks[i].duration_days, request.tasks[i].duration_minutes>>
             = DefaultDuration
    /\ \A k \in DOMAIN request.anchors : request.anchors[k].fmt # "datetime"
    /\ Started

\* The routine is one sequential call: it takes its next step whenever it
\* has one.
SpecFair == InitGraphs /\ [][Next]_vars /\ WF_vars(Next)

\* ------------------------------------------------------------- lib.rs
\* The calculate_backwards_schedule command of lib.rs: dates are whole
\* days (NaiveDate), an anchor must be a %Y-%m-%d string, and the queue is
\* seeded with the keys of the anchors map.
LibDateMAX == 1000000
LibDurationDays == 1
LibParse(s) == IF s.fmt = "date" THEN <<"Ok", s.day>> ELSE ParseErr
LibToString(day) == DateOnly(day)
LibTask(i, id, deps) ==
    [ id |-> id, name |-> <<"Task", i>>, duration_days |-> LibDurationDays,
      dependencies |-> deps ]

\* The requests of the command: unique ids, every task of one day.
IsLibRequest(r, n) ==
    \E deps \in DepLists(n, MaxEdges) :
      \E a \in AnchorMaps((1..n) \cup {UnknownId}) :
        /\ SumLen(deps) <= IF /\ DOMAIN a \subseteq 1..n
                              /\ \A k \in DOMAIN a : LibParse(a[k]) # ParseErr
                           THEN MaxEdges ELSE MaxEdgesRejected
        /\ r = [ tasks |-> [i \in 1..n |-> LibTask(i, i, deps[i])],
                 anchors |-> a ]

\* The orders in which `request.anchors.keys()` can yield the keys.
KeyOrders(keys) ==
    { o \in [1..Cardinality(keys) -> keys] :
        \A i, j \in DOMAIN o : o[i] = o[j] => i = j }

\* The locals after task_map and dependents were built.
LibStart(r) ==
    [ pc |-> "start",
      task_map |-> TaskMapOf(r.tasks),
      dependents |-> DependentsOf(r.tasks),
      computed_end_dates |-> << >>,
      unscheduled_consumers_count |-> << >>,
      queue |-> << >>,
      result |-> << >>,
      visited |-> {},
      returned |-> Running ]

InitLib ==
    /\ \E n \in 0..MaxTasks : IsLibRequest(request, n)
    /\ lib = LibStart(request)
    /\ listing = ListIdle
    /\ pc = "idle"
    /\ task_map = << >>
    /\ dependents = << >>
    /\ late_finish = << >>
    /\ unscheduled_consumers = << >>
    /\ queue = << >>
    /\ visited_backward = {}
    /\ backward_schedule = << >>
    /\ project_start = 0
    /\ early_start = << >>
    /\ early_finish = << >>
    /\ in_degree = << >>
    /\ forward_queue = << >>
    /\ visited_forward = {}
    /\ result = Running

LibReturn(r) == lib' = [lib EXCEPT !.pc = "done", !.returned = r]

\* The anchors entries on which the first anchors loop returns an error.
LibInvalidAnchors(anchors, tmap) ==
    { k \in DOMAIN anchors :
        k \notin DOMAIN tmap \/ LibParse(anchors[k]) = ParseErr }

\* The first anchors loop returns an error at the first invalid entry it
\* meets, in the order of the hash map.
LibAnchorFail ==
    /\ lib.pc = "start"
    /\ \E task_id \in LibInvalidAnchors(request.anchors, lib.task_map) :
         LibReturn(IF task_id \notin DOMAIN lib.task_map
                   THEN Err("Anchor task not found", task_id)
                   ELSE Err("Invalid anchor date", task_id))
    /\ UNCHANGED << scheduler_vars, listing >>

\* Both anchors loops complete: the end dates are seeded, the counters are
\* taken from dependents and the queue holds the anchors keys in the order
\* the hash map yields them.
LibSeed ==
    /\ lib.pc = "start"
    /\ LibInvalidAnchors(request.anchors, lib.task_map) = {}
    /\ \E order \in KeyOrders(DOMAIN request.anchors) :
         lib' = [lib EXCEPT
                   !.pc = "loop",
                   !.computed_end_dates =
                      [k \in DOMAIN request.anchors |-> LibParse(request.anchors[k])[2]],
                   !.unscheduled_consumers_count =
                      [k \in DOMAIN lib.dependents |-> Len(lib.dependents[k])],
                   !.queue = order]
    /\ UNCHANGED << scheduler_vars, listing >>

\* `for provider_id in &task.dependencies` of lib.rs.
RECURSIVE LibPropagate(_, _, _)
LibPropagate(deps, start_date, st) ==
    IF deps = << >> THEN st
    ELSE LET provider_id == Head(deps)
             entry == IF provider_id \in DOMAIN st.computed_end_dates
                      THEN st.computed_end_dates[provider_id]
                      ELSE LibDateMAX
             has == provider_id \in DOMAIN st.unscheduled_consumers_count
             count == IF has THEN st.unscheduled_consumers_count[provider_id] - 1
                      ELSE 0
         IN  LibPropagate(Tail(deps), start_date,
               [ computed_end_dates |->
                    Put(st.computed_end_dates, provider_id,
                        IF start_date < entry THEN start_date ELSE entry),
                 unscheduled_consumers_count |->
                    IF has THEN Put(st.unscheduled_consumers_count, provider_id, count)
                    ELSE st.unscheduled_consumers_count,
                 queue |-> IF has /\ count = 0
                           THEN Append(st.queue, provider_id) ELSE st.queue,
                 underflow |-> st.underflow \/ (has /\ count = -1) ])

\* One iteration of `while let Some(task_id) = queue.pop()` of lib.rs.
LibStep ==
    /\ lib.pc = "loop"
    /\ lib.queue # << >>
    /\ LET task_id == lib.queue[Len(lib.queue)]
           popped == SubSeq(lib.queue, 1, Len(lib.queue) - 1)
       IN  IF task_id \in lib.visited
           THEN lib' = [lib EXCEPT !.queue = popped]
           ELSE IF task_id \notin DOMAIN lib.task_map
           THEN lib' = [lib EXCEPT !.queue = popped,
                                   !.visited = @ \cup {task_id},
                                   !.pc = "done",
                                   !.returned = Err("Task not found", task_id)]
           ELSE IF task_id \notin DOMAIN lib.computed_end_dates
           THEN lib' = [lib EXCEPT !.queue = popped,
                                   !.visited = @ \cup {task_id},
                                   !.pc = "done",
                                   !.returned = Err("End date not computed", task_id)]
           ELSE LET task == lib.task_map[task_id]
                    end_date == lib.computed_end_dates[task_id]
                    start_date == end_date - task.duration_days
                    st == LibPropagate(task.dependencies, start_date,
                            [ computed_end_dates |-> lib.computed_end_dates,
                              unscheduled_consumers_count |->
                                 lib.unscheduled_consumers_count,
                              queue |-> popped,
                              underflow |-> FALSE ])
                    scheduled == [ id |-> task.id, name |-> task.name,
                                   start_date |-> LibToString(start_date),
                                   end_date |-> LibToString(end_date) ]
                IN  \E overflow_checks \in IF st.underflow THEN BOOLEAN ELSE {FALSE} :
                      lib' = [lib EXCEPT
                                !.visited = @ \cup {task_id},
                                !.result = Append(@, scheduled),
                                !.computed_end_dates = st.computed_end_dates,
                                !.unscheduled_consumers_count =
                                   st.unscheduled_consumers_count,
                                !.queue = st.queue,
                                !.pc = IF overflow_checks THEN "done" ELSE @,
                                !.returned =
                                   IF overflow_checks
                                   THEN <<"Panic", "attempt to subtract with overflow">>
                                   ELSE @]
    /\ UNCHANGED << scheduler_vars, listing >>

\* The queue is empty: `Ok(result)`.
LibOk ==
    /\ lib.pc = "loop"
    /\ lib.queue = << >>
    /\ LibReturn(Ok(lib.result))
    /\ UNCHANGED << scheduler_vars, listing >>

NextLib ==
    \/ LibAnchorFail
    \/ LibSeed
    \/ LibStep
    \/ LibOk

SpecLib == InitLib /\ [][NextLib]_vars

\* ------------------------------------------------------------- project.rs
\* list_projects, for one project file: `now` is read once, the status and
\* deadline come first from the anchors, then the scheduler is called with
\* the tasks and anchors of the file and the metadata is refined from its
\* schedule.  `now` is a whole number of seconds.  The id, name, created_at
\* and last_modified of the file are copied and are left out.

\* The offsets of `now` before the end of 2026-01-10: just past it, at it,
\* and around 2, 3, 5 and 6 whole days before it.
NowOffsets ==
    { -1, 0,
      DurationDays(2), DurationDays(2) + 1, DurationDays(3) - 1, DurationDays(3),
      DurationDays(5), DurationDays(5) + 1, DurationDays(6) - 1, DurationDays(6) }
Nows == { parse_date_string(DateOnly(10))[2] - off : off \in NowOffsets }

\* parse_date_or_datetime: the formats of parse_date_string, None otherwise.
parse_date_or_datetime(s) ==
    IF s.fmt = "datetime" THEN Some(s.day * SecondsPerDay + s.secs)
    ELSE IF s.fmt = "date" THEN Some(s.day * SecondsPerDay + EndOfDaySeconds)
    ELSE None

\* NaiveDateTime::parse_from_str(s, "%Y-%m-%dT%H:%M:%S").ok()
parse_from_str(s) ==
    IF s.fmt = "datetime" THEN Some(s.day * SecondsPerDay + s.secs) ELSE None

\* NaiveDateTime::format("%Y-%m-%d %H:%M"): the seconds are dropped.
format_minute(t) ==
    [ fmt |-> "minute", day |-> t \div SecondsPerDay,
      mins |-> (t % SecondsPerDay) \div SecondsPerMinute ]

\* chrono::Duration::num_days and num_hours: whole units, truncated toward
\* zero.
SecondsPerHour == 3600
duration_num_days(d) ==
    IF d >= 0 THEN d \div SecondsPerDay ELSE -((-d) \div SecondsPerDay)
duration_num_hours(d) ==
    IF d >= 0 THEN d \div SecondsPerHour ELSE -((-d) \div SecondsPerHour)

\* The status from the nearest anchor that is not before now.
AnchorUrgentDays == 5
AnchorStatusOf(duration) ==
    IF duration < 0 THEN "overdue"
    ELSE IF duration_num_days(duration) <= AnchorUrgentDays THEN "urgent"
    ELSE "on_track"

\* The status from the earliest end of an uncompleted task.
TaskUrgentDays == 2
TaskStatusOf(duration) ==
    IF duration < 0 THEN "overdue"
    ELSE IF duration_num_days(duration) <= TaskUrgentDays THEN "urgent"
    ELSE "on_track"

\* The anchors that parse and are not before now, as a set: only the
\* first of them in sorted order is used.
FutureAnchors(anchors, now) ==
    { t \in { parse_date_or_datetime(anchors[k])[1] :
                k \in { j \in DOMAIN anchors :
                          parse_date_or_datetime(anchors[j]) # None } } :
        t >= now }

\* next_deadline and status after the anchors were looked at.
AnchorMetadata(anchors, now) ==
    LET future == FutureAnchors(anchors, now)
    IN  IF future = {}
        THEN [ next_deadline |-> None, status |-> "overdue" ]
        ELSE [ next_deadline |-> Some(format_minute(Min(future))),
               status |-> AnchorStatusOf(Min(future) - now) ]

\* active_or_upcoming: the uncompleted records of the schedule whose dates
\* parse and whose end is not before now, in schedule order.
ActiveOrUpcoming(schedule, now) ==
    LET Kept(t) == /\ ~t.completed
                   /\ parse_from_str(t.start_date) # None
                   /\ parse_from_str(t.end_date) # None
                   /\ parse_from_str(t.end_date)[1] >= now
    IN  SelectSeq(schedule, Kept)

\* The first record after the stable sort by end: the earliest end, the
\* earliest position among equal ends.
FirstByEnd(list) ==
    LET end(i) == parse_from_str(list[i].end_date)[1]
        i == CHOOSE a \in DOMAIN list :
                \A b \in DOMAIN list : end(a) < end(b) \/ (end(a) = end(b) /\ a <= b)
    IN  list[i]

\* current_focus for the record chosen.
CurrentFocusOf(task, now) ==
    LET start == parse_from_str(task.start_date)[1]
        end == parse_from_str(task.end_date)[1]
    IN  IF now >= start /\ now <= end THEN <<task.name>>
        ELSE IF duration_num_days(start - now) > 0
             THEN <<task.name, "starts in days", duration_num_days(start - now)>>
             ELSE <<task.name, "starts in hours", duration_num_hours(start - now)>>

\* The metadata refined from a schedule the scheduler returned.
ScheduleMetadata(schedule, now, from_anchors) ==
    LET list == ActiveOrUpcoming(schedule, now)
    IN  IF list = << >>
        THEN [ next_deadline |-> from_anchors.next_deadline,
               status |-> from_anchors.status,
               current_focus |-> Some("All tasks completed") ]
        ELSE LET first == FirstByEnd(list)
                 end == parse_from_str(first.end_date)[1]
             IN  [ next_deadline |-> Some(format_minute(end)),
                   status |-> TaskStatusOf(end - now),
                   current_focus |-> Some(CurrentFocusOf(first, now)) ]

\* The ProjectMetadata of the project whose tasks and anchors are those of
\* r, given what the scheduler returned for them.
MetadataOf(r, returned, now) ==
    LET derived ==
          IF r.anchors = << >>
          THEN [ next_deadline |-> None, status |-> "empty",
                 current_focus |-> None ]
          ELSE IF returned[1] = "Ok"
          THEN ScheduleMetadata(returned[2], now, AnchorMetadata(r.anchors, now))
          ELSE [ next_deadline |-> AnchorMetadata(r.anchors, now).next_deadline,
                 status |-> AnchorMetadata(r.anchors, now).status,
                 current_focus |-> None ]
    IN  [ task_count |-> Len(r.tasks),
          next_deadline |-> derived.next_deadline,
          current_focus |-> derived.current_focus,
          status |-> derived.status ]

\* One iteration of the loop over the project files.  The scheduler is
\* called only for a project that has anchors; a panic of the scheduler
\* ends list_projects without metadata.
ListProjects ==
    /\ listing.pc = "idle"
    /\ IF request.anchors = << >> THEN pc = "start" ELSE pc = "done"
    /\ \E now \in Nows :
         listing' = IF result[1] = "Panic"
                    THEN [ pc |-> "panicked", now |-> now ]
                    ELSE [ pc |-> "listed", now |-> now,
                           metadata |-> MetadataOf(request, result, now) ]
    /\ UNCHANGED << scheduler_vars, lib >>

NextList ==
    \/ Next
    \/ ListProjects

\* The project files of the model: the requests of up to
\* MaxPassthroughTasks tasks with every choice of passthrough attributes.
SpecList == InitPassthrough /\ [][NextList]_vars

\* ------------------------------------------------------------- claims
\* No request outside Schedulable returns a schedule: the requests whose
\* durations are fixed are requests the routine rejects.
OkOnlyIfSchedulable ==
    (result[1] = "Ok" /\ request.tasks # << >>) =>
        Schedulable(Len(request.tasks),
                    [i \in DOMAIN request.tasks |-> request.tasks[i].id],
                    [i \in DOMAIN request.tasks |-> request.tasks[i].dependencies],
                    request.anchors)

Tasks == request.tasks
Done == pc = "done"
ReturnedOk == result[1] = "Ok"
ReturnedErr(kind) == result[1] = "Err" /\ result[2] = kind
Output == result[2]

UniqueIds ==
    \A i, j \in DOMAIN Tasks : Tasks[i].id = Tasks[j].id => i = j

\* The timestamp a date string of the output or of the anchors map denotes.
Timestamp(s) == parse_date_string(s)[2]

\* The output record of the i-th input task: the output lists the tasks in
\* input order.
Complete == Len(Output) = Len(Tasks)
LateStart(i) == Timestamp(Output[i].start_date)
LateFinish(i) == Timestamp(Output[i].end_date)
Anchored(i) == Tasks[i].id \in DOMAIN request.anchors
AnchorOf(i) == Timestamp(request.anchors[Tasks[i].id])

\* The (provider, consumer) positions of the request: the provider's id is
\* listed in the consumer's dependencies.
IsEdge(a, b) ==
    \E j \in DOMAIN Tasks[b].dependencies : Tasks[b].dependencies[j] = Tasks[a].id
Consumers(a) == {b \in DOMAIN Tasks : IsEdge(a, b)}

\* The duration a task asks for, in minutes: duration_minutes when present,
\* duration_days * 1440 otherwise.
MinutesPerDay == 1440
RequestedMinutes(task) ==
    IF task.duration_minutes = None
    THEN task.duration_days * MinutesPerDay
    ELSE task.duration_minutes[1]

\* C1: when the routine returns Ok for a request with unique ids, every
\* dependency named in a dependencies list is a scheduled task, the provider
\* ends no later than the consumer starts (end_date <= start_date), and in
\* the forward pass its early finish is no later than the consumer's early
\* start.
C1_Precedence ==
    (ReturnedOk /\ UniqueIds) =>
        /\ Complete
        /\ \A b \in DOMAIN Tasks : \A j \in DOMAIN Tasks[b].dependencies :
             \E a \in DOMAIN Tasks :
                /\ Tasks[a].id = Tasks[b].dependencies[j]
                /\ LateFinish(a) <= LateStart(b)
                /\ Tasks[a].id \in DOMAIN early_finish
                /\ Tasks[b].id \in DOMAIN early_start
                /\ early_finish[Tasks[a].id] <= early_start[Tasks[b].id]

\* A schedule is returned for a task with two different providers, one of
\* which ends strictly before the task starts.
C1_Witness ==
    /\ ReturnedOk /\ UniqueIds /\ Complete
    /\ \E a1, a2, b \in DOMAIN Tasks :
         /\ a1 # a2 /\ IsEdge(a1, b) /\ IsEdge(a2, b)
         /\ LateFinish(a1) < LateStart(b)
         /\ LateFinish(a2) = LateStart(b)

\* C2 as stated: whenever the routine returns Ok, every anchored task ends
\* no later than its anchor and some anchored task ends exactly at its
\* anchor.
C2_Original ==
    ReturnedOk =>
        /\ Complete
        /\ \A i \in DOMAIN Tasks : Anchored(i) => LateFinish(i) <= AnchorOf(i)
        /\ \E i \in DOMAIN Tasks : Anchored(i) /\ LateFinish(i) = AnchorOf(i)

\* C2 amended: whenever the routine returns Ok for a request with at least
\* one task, every anchored task ends no later than its anchor and some
\* anchored task ends exactly at its anchor.
C2_AnchorRespect ==
    (ReturnedOk /\ Tasks # << >>) =>
        /\ Complete
        /\ \A i \in DOMAIN Tasks : Anchored(i) => LateFinish(i) <= AnchorOf(i)
        /\ \E i \in DOMAIN Tasks : Anchored(i) /\ LateFinish(i) = AnchorOf(i)

\* A schedule is returned in which one anchored task ends strictly before
\* its anchor and another ends exactly at its anchor.
C2_Witness ==
    /\ ReturnedOk /\ Complete
    /\ \E i, k \in DOMAIN Tasks :
         /\ Anchored(i) /\ LateFinish(i) < AnchorOf(i)
         /\ Anchored(k) /\ LateFinish(k) = AnchorOf(k)

\* The deadlines that bound the end of the i-th task: its own anchor and
\* the start of each of its consumers.
Deadlines(i) ==
    (IF Anchored(i) THEN {AnchorOf(i)} ELSE {})
        \cup {LateStart(c) : c \in Consumers(i)}

\* C3: when the routine returns Ok for a request with unique ids, the end
\* of every task is the minimum of its own anchor (if it has one) and the
\* starts of its consumers.
C3_TightestDeadline ==
    (ReturnedOk /\ UniqueIds) =>
        /\ Complete
        /\ \A i \in DOMAIN Tasks :
             /\ Deadlines(i) # {}
             /\ LateFinish(i) = Min(Deadlines(i))

\* A schedule is returned in which a provider with two consumers is
\* anchored later than the start of one of them, and ends at the earlier
\* consumer's start.
C3_Witness ==
    /\ ReturnedOk /\ UniqueIds /\ Complete
    /\ \E i, c1, c2 \in DOMAIN Tasks :
         /\ c1 # c2 /\ IsEdge(i, c1) /\ IsEdge(i, c2)
         /\ Anchored(i)
         /\ LateStart(c1) < AnchorOf(i)
         /\ LateStart(c1) < LateStart(c2)
         /\ LateFinish(i) = LateStart(c1)

\* C4 as stated: whenever the routine returns Ok, end - start and early
\* finish - early start of every task are exactly the duration the task
\* asks for.
C4_Original ==
    ReturnedOk =>
        /\ Complete
        /\ \A i \in DOMAIN Tasks :
             /\ LateFinish(i) - LateStart(i)
                  = RequestedMinutes(Tasks[i]) * SecondsPerMinute
             /\ Tasks[i].id \in DOMAIN early_start
             /\ Tasks[i].id \in DOMAIN early_finish
             /\ early_finish[Tasks[i].id] - early_start[Tasks[i].id]
                  = RequestedMinutes(Tasks[i]) * SecondsPerMinute

\* C4 amended: whenever the routine returns Ok for a request with unique
\* task ids, end - start and early finish - early start of every task are
\* exactly the duration the task asks for (duration_minutes when present,
\* also when it is 0, and duration_days * 1440 minutes otherwise).
C4_DurationClosure ==
    (ReturnedOk /\ UniqueIds) =>
        /\ Complete
        /\ \A i \in DOMAIN Tasks :
             /\ LateFinish(i) - LateStart(i)
                  = RequestedMinutes(Tasks[i]) * SecondsPerMinute
             /\ Tasks[i].id \in DOMAIN early_start
             /\ Tasks[i].id \in DOMAIN early_finish
             /\ early_finish[Tasks[i].id] - early_start[Tasks[i].id]
                  = RequestedMinutes(Tasks[i]) * SecondsPerMinute

\* A schedule is returned for unique ids in which one task has
\* duration_minutes = 0 beside a non-zero duration_days, and another has
\* no duration_minutes.
C4_Witness ==
    /\ ReturnedOk /\ UniqueIds /\ Complete
    /\ \E i, k \in DOMAIN Tasks :
         /\ Tasks[i].duration_minutes = Some(0)
         /\ Tasks[i].duration_days # 0
         /\ LateFinish(i) = LateStart(i)
         /\ Tasks[k].duration_minutes = None
         /\ LateFinish(k) # LateStart(k)

\* C5: whenever the routine returns Ok, every output task has
\* slack_minutes >= 0, and its late start is not before the early start the
\* forward pass recorded for it.
C5_NonNegativeSlack ==
    ReturnedOk =>
        \A i \in DOMAIN Output :
            /\ Output[i].slack_minutes >= 0
            /\ Output[i].id \in DOMAIN early_start =>
                  Timestamp(Output[i].start_date) >= early_start[Output[i].id]

\* A schedule is returned in which a task of negative duration sits between
\* a provider and a consumer, and some task has positive slack.
C5_Witness ==
    /\ ReturnedOk /\ Complete
    /\ \E a, b, c \in DOMAIN Tasks :
         /\ IsEdge(a, b) /\ IsEdge(b, c)
         /\ RequestedMinutes(Tasks[b]) < 0
    /\ \E i \in DOMAIN Output : Output[i].slack_minutes > 0

\* The ids of the request's tasks, and the sinks: the tasks whose id no
\* dependencies list names.
IdsOfTasks == {Tasks[i].id : i \in DOMAIN Tasks}
IsSinkTask(i) == \A b \in DOMAIN Tasks : ~IsEdge(i, b)
KnownDependencies ==
    \A b \in DOMAIN Tasks : \A j \in DOMAIN Tasks[b].dependencies :
        Tasks[b].dependencies[j] \in IdsOfTasks
ValidAnchors ==
    \A k \in DOMAIN request.anchors :
        /\ k \in IdsOfTasks
        /\ request.anchors[k].fmt \in {"date", "datetime"}
UnanchoredSinkNames ==
    {Tasks[i].name : i \in {k \in DOMAIN Tasks : IsSinkTask(k) /\ ~Anchored(k)}}

\* The task names an error payload carries.
PayloadNames(payload) ==
    IF payload[1] = "name" THEN {payload[2]}
    ELSE {payload[2][i] : i \in DOMAIN payload[2]}

\* C6: for a request with unique ids, known dependency ids and valid
\* anchors in which some sink has no anchor, the routine returns
\* NoEndDateComputed and the payload carries the name of an unanchored sink.
C6_UnanchoredSink ==
    (Done /\ UniqueIds /\ KnownDependencies /\ ValidAnchors
          /\ UnanchoredSinkNames # {}) =>
        /\ ReturnedErr("NoEndDateComputed")
        /\ PayloadNames(result[3]) \cap UnanchoredSinkNames # {}

\* The routine has returned for a request in which one sink is anchored
\* and another is not, and a provider of the anchored sink is anchored too.
C6_Witness ==
    /\ Done /\ UniqueIds /\ KnownDependencies /\ ValidAnchors
    /\ ReturnedErr("NoEndDateComputed")
    /\ \E i, k, a \in DOMAIN Tasks :
         /\ IsSinkTask(i) /\ Anchored(i)
         /\ IsSinkTask(k) /\ ~Anchored(k)
         /\ IsEdge(a, i) /\ Anchored(a)

\* The tasks that transitively depend on themselves.
RECURSIVE ProvidersWithin(_, _)
ProvidersWithin(S, steps) ==
    IF steps = 0 THEN S
    ELSE ProvidersWithin(
           S \cup {a \in DOMAIN Tasks : \E b \in S : IsEdge(a, b)}, steps - 1)
OnCycle(i) ==
    i \in ProvidersWithin({a \in DOMAIN Tasks : IsEdge(a, i)}, Len(Tasks))
HasCycle == \E i \in DOMAIN Tasks : OnCycle(i)

\* C7: for a request with unique ids whose dependency relation has a cycle
\* (a task that depends on itself included), the routine never returns Ok
\* and, once it has returned, has returned an error.
C7_CycleRejected ==
    (UniqueIds /\ HasCycle) =>
        /\ ~ReturnedOk
        /\ Done => result[1] = "Err"

\* The backward pass has processed an anchored sink of a request that also
\* holds a cycle, and the routine has returned.
C7_Witness ==
    /\ Done /\ UniqueIds /\ HasCycle
    /\ \E i \in DOMAIN Tasks :
         /\ ~OnCycle(i) /\ IsSinkTask(i)
         /\ Tasks[i].id \in DOMAIN backward_schedule

\* C8 as stated: when the backward pass ends with fewer tasks processed
\* than |tasks| and the unprocessed tasks are exactly the tasks on a
\* dependency cycle (every other task was processed), the routine returns
\* CycleDetected.
C8_CycleDetected ==
    (/\ Done /\ UniqueIds /\ HasCycle
     /\ InvalidAnchors(request.anchors, task_map) = {}
     /\ Cardinality(DOMAIN backward_schedule) < Len(Tasks)
     /\ \A i \in DOMAIN Tasks :
          Tasks[i].id \notin DOMAIN backward_schedule <=> OnCycle(i))
        => ReturnedErr("CycleDetected")

\* C9 as stated: for every request in which some anchors key is no task
\* id, the routine returns an error (AnchorTaskNotFound carrying such a key
\* when every anchor string is well-formed) and never Ok.
UnknownAnchorKeys == (DOMAIN request.anchors) \ IdsOfTasks
WellFormedAnchorStrings ==
    \A k \in DOMAIN request.anchors :
        request.anchors[k].fmt \in {"date", "datetime"}
C9_Original ==
    (UnknownAnchorKeys # {}) =>
        /\ ~ReturnedOk
        /\ Done =>
             /\ result[1] = "Err"
             /\ WellFormedAnchorStrings =>
                  /\ ReturnedErr("AnchorTaskNotFound")
                  /\ result[3] \in UnknownAnchorKeys

\* C9 amended: for every request with at least one task in which some
\* anchors key is no task id, the routine returns an error
\* (AnchorTaskNotFound carrying such a key when every anchor string is
\* well-formed) and never Ok.
C9_UnknownAnchor ==
    (UnknownAnchorKeys # {} /\ Tasks # << >>) =>
        /\ ~ReturnedOk
        /\ pc \in {"start", "done"}
        /\ Done =>
             /\ result[1] = "Err"
             /\ WellFormedAnchorStrings =>
                  /\ ReturnedErr("AnchorTaskNotFound")
                  /\ result[3] \in UnknownAnchorKeys

\* The routine has returned InvalidAnchorDate for a request that has tasks,
\* an unknown anchors key and an anchor of a known task that does not parse.
C9_Witness ==
    /\ Done /\ Tasks # << >> /\ UnknownAnchorKeys # {}
    /\ ReturnedErr("InvalidAnchorDate")
    /\ result[3] \in IdsOfTasks

\* C10: for a request with no tasks the routine returns Ok with an empty
\* list, whatever the anchors map holds, and runs neither pass: no table of
\* the backward or the forward pass is ever written.
C10_EmptyProject ==
    (Tasks = << >>) =>
        /\ pc \in {"start", "done"}
        /\ Done => result = Ok(<< >>)
        /\ dependents = << >> /\ late_finish = << >>
        /\ unscheduled_consumers = << >> /\ queue = << >>
        /\ visited_backward = {} /\ backward_schedule = << >>
        /\ early_start = << >> /\ early_finish = << >>
        /\ in_degree = << >> /\ forward_queue = << >>
        /\ visited_forward = {}

\* The routine has returned for a request with no tasks whose anchors map
\* holds an unknown key with a string that does not parse.
C10_Witness ==
    /\ Done /\ Tasks = << >>
    /\ \E k \in DOMAIN request.anchors : request.anchors[k] = BadDate

\* The errors the anchors loop can return.
AnchorOutcomes ==
    {Err(kind, k) : kind \in {"AnchorTaskNotFound", "InvalidAnchorDate"},
                    k \in TaskIds \cup {UnknownId}}

\* C11 as stated: the outcome of a request is the same whatever order the
\* hash maps are iterated in, requests with two or more invalid anchors
\* included: no two iteration orders of the anchors map end the anchors
\* loop with different errors.
C11_OrderIndependent ==
    pc = "start" =>
        \A r1, r2 \in AnchorOutcomes :
            (ENABLED (AnchorFail /\ result' = r1)
               /\ ENABLED (AnchorFail /\ result' = r2)) => r1 = r2

\* C12: whenever the routine returns Ok for a request with unique ids, the
\* output has the length of the input and its i-th record has the id of
\* the i-th input task.
C12_OrderPreserved ==
    (ReturnedOk /\ UniqueIds) =>
        /\ Len(Output) = Len(Tasks)
        /\ \A i \in DOMAIN Tasks : Output[i].id = Tasks[i].id

\* A schedule is returned for three tasks of unique ids in which a consumer
\* is listed before its provider, so the input order is neither the order
\* the passes process the tasks in nor the order of the start dates.
C12_Witness ==
    /\ ReturnedOk /\ UniqueIds /\ Len(Tasks) = 3
    /\ \E a, b \in DOMAIN Tasks :
         /\ IsEdge(a, b) /\ b < a
         /\ LateStart(a) < LateStart(b)

\* The ids that a dependencies list names and no task has.
UnknownDependencies ==
    UNION {{Tasks[b].dependencies[j] : j \in DOMAIN Tasks[b].dependencies} :
             b \in DOMAIN Tasks} \ IdsOfTasks
EverySinkAnchored == \A i \in DOMAIN Tasks : IsSinkTask(i) => Anchored(i)

\* C13: for a request with unique ids, valid anchors, an anchor on every
\* sink and no cycle in which a dependencies list names an id that is no
\* task, the routine never returns Ok and returns TaskNotFound carrying
\* such an id.
C13_UnknownDependency ==
    (/\ UniqueIds /\ ValidAnchors /\ EverySinkAnchored /\ ~HasCycle
     /\ UnknownDependencies # {}) =>
        /\ ~ReturnedOk
        /\ Done => /\ ReturnedErr("TaskNotFound")
                   /\ result[3] \in UnknownDependencies

\* TaskNotFound is returned for such a request after the backward pass
\* recorded two tasks, one of which depends on the other.
C13_Witness ==
    /\ Done /\ UniqueIds /\ ValidAnchors /\ EverySinkAnchored /\ ~HasCycle
    /\ ReturnedErr("TaskNotFound")
    /\ \E a, b \in DOMAIN Tasks :
         /\ IsEdge(a, b)
         /\ {Tasks[a].id, Tasks[b].id} \subseteq DOMAIN backward_schedule

\* The early dates of the i-th task, and the largest element of a set.
EarlyStart(i) == early_start[Tasks[i].id]
EarlyFinish(i) == early_finish[Tasks[i].id]
Max(S) == CHOOSE x \in S : \A y \in S : y <= x
Providers(b) == {a \in DOMAIN Tasks : IsEdge(a, b)}
NonNegativeDurations == \A i \in DOMAIN Tasks : RequestedMinutes(Tasks[i]) >= 0

\* The longest total duration, in seconds, of a chain of predecessors of
\* the i-th task.
RECURSIVE LongestChainBefore(_)
LongestChainBefore(i) ==
    IF Providers(i) = {} THEN 0
    ELSE Max({LongestChainBefore(a) + RequestedMinutes(Tasks[a]) * SecondsPerMinute :
                a \in Providers(i)})

\* The diamond of the example: A 2 days, B 1 day, C 3 days, D 1 day.
IsExampleDiamond ==
    /\ IsDiamondRequest(request)
    /\ \A i \in 1..4 : Tasks[i].duration_days = <<2, 1, 3, 1>>[i]

\* C14: whenever the routine returns Ok for a request with unique ids and
\* non-negative durations, the project start is the least late start, the
\* early start of a task without dependencies is the project start and the
\* early start of any other task is the greatest early finish of its
\* dependencies, so that it is the project start plus the longest chain of
\* predecessors; in the example diamond C has slack 0 and B 2880 minutes.
C14_ForwardPass ==
    (ReturnedOk /\ UniqueIds /\ NonNegativeDurations) =>
        /\ Complete
        /\ Tasks # << >> =>
             project_start = Min({LateStart(i) : i \in DOMAIN Tasks})
        /\ \A i \in DOMAIN Tasks :
             /\ Tasks[i].id \in DOMAIN early_start
             /\ Tasks[i].dependencies = << >> => EarlyStart(i) = project_start
             /\ Tasks[i].dependencies # << >> =>
                  /\ Providers(i) # {}
                  /\ \A a \in Providers(i) : Tasks[a].id \in DOMAIN early_finish
                  /\ EarlyStart(i) = Max({EarlyFinish(a) : a \in Providers(i)})
             /\ EarlyStart(i) = project_start + LongestChainBefore(i)
        /\ IsExampleDiamond =>
             /\ Output[3].slack_minutes = 0
             /\ Output[2].slack_minutes = 2880

\* The schedule of the example diamond is returned.
C14_Witness == ReturnedOk /\ IsExampleDiamond

\* The early start the assembler uses for an output record: the early start
\* of the forward pass, or the late start where the forward pass recorded
\* none.
AssembledEarlyStart(rec) ==
    IF rec.id \in DOMAIN early_start THEN early_start[rec.id]
    ELSE Timestamp(rec.start_date)
SlackSeconds(rec) == Timestamp(rec.start_date) - AssembledEarlyStart(rec)

\* C15: in an Ok output, slack_minutes of every task is its late start
\* minus its early start in whole minutes (a fraction of a minute is
\* dropped), and is_critical is true exactly when slack_minutes <= 0.
C15_SlackAndCritical ==
    ReturnedOk =>
        \A i \in DOMAIN Output :
            /\ Output[i].slack_minutes * SecondsPerMinute <= SlackSeconds(Output[i])
            /\ SlackSeconds(Output[i]) < (Output[i].slack_minutes + 1) * SecondsPerMinute
            /\ Output[i].is_critical <=> Output[i].slack_minutes <= 0

\* A schedule is returned in which one task has slack 0 and another has a
\* slack that is no whole number of minutes.
C15_Witness ==
    /\ ReturnedOk
    /\ \E i, k \in DOMAIN Output :
         /\ Output[i].slack_minutes = 0 /\ Output[i].is_critical
         /\ Output[k].slack_minutes > 0 /\ ~Output[k].is_critical
         /\ Output[k].id \in DOMAIN early_start
         /\ SlackSeconds(Output[k]) % SecondsPerMinute # 0

\* In an Ok output for unique ids, completed, notes and is_milestone of
\* every record are those of the input task, and the record has no other
\* field than the nine of ScheduledTask.
ScalarPassthroughKept ==
    (ReturnedOk /\ UniqueIds) =>
        /\ Len(Output) = Len(Tasks)
        /\ \A i \in DOMAIN Output :
             /\ Output[i].completed = Tasks[i].completed
             /\ Output[i].notes = Tasks[i].notes
             /\ Output[i].is_milestone = Tasks[i].is_milestone
             /\ DOMAIN Output[i] =
                  { "id", "name", "start_date", "end_date", "completed",
                    "notes", "is_critical", "slack_minutes", "is_milestone" }

\* C16 as stated: in an Ok output, the record of every task carries the
\* input task's completed, notes, is_milestone and subtasks unchanged.
C16_Passthrough ==
    (ReturnedOk /\ UniqueIds) =>
        /\ Len(Output) = Len(Tasks)
        /\ \A i \in DOMAIN Output :
             /\ Output[i].completed = Tasks[i].completed
             /\ Output[i].notes = Tasks[i].notes
             /\ Output[i].is_milestone = Tasks[i].is_milestone
             /\ "subtasks" \in DOMAIN Output[i]
             /\ Output[i].subtasks = Tasks[i].subtasks

\* How often id stands on a worklist, the ids a request can hold, and
\* whether some dependencies list names id.
Count(seq, id) == Cardinality({i \in DOMAIN seq : seq[i] = id})
AllIds == IdsOfTasks \cup UnknownDependencies
IsNamedProvider(id) ==
    \E b \in DOMAIN Tasks : \E j \in DOMAIN Tasks[b].dependencies :
        Tasks[b].dependencies[j] = id
ConsumersRecorded(id) ==
    \A b \in DOMAIN Tasks :
        (\E j \in DOMAIN Tasks[b].dependencies : Tasks[b].dependencies[j] = id)
            => Tasks[b].id \in DOMAIN backward_schedule

\* One step of the routine in the terms of C17, for the id of a task or of
\* a dependency.
BackwardOrderStep(id) ==
    \* recorded only after every consumer was recorded
    /\ (id \in DOMAIN backward_schedule' /\ id \notin DOMAIN backward_schedule)
          => ConsumersRecorded(id)
    \* put on the queue once: a sink at the start, any other id at the
    \* step that takes its counter from a positive value to zero
    /\ Count(queue', id) <= 1
    /\ id \in visited_backward' => Count(queue', id) = 0
    /\ Count(queue', id) > Count(queue, id) =>
          IF pc = "start" THEN ~IsNamedProvider(id)
          ELSE /\ IsNamedProvider(id)
               /\ unscheduled_consumers[id] > 0
               /\ unscheduled_consumers'[id] = 0
    \* processed at most once, and what was recorded stays
    /\ id \in DOMAIN backward_schedule =>
          /\ backward_schedule'[id] = backward_schedule[id]
          /\ late_finish'[id] = late_finish[id]
          /\ Count(queue, id) = 0

\* C17: for unique ids, a task's late dates are recorded only after every
\* consumer of it was processed; a task with consumers is put on the queue
\* exactly once, at the step that takes its counter to zero; every task is
\* processed at most once and a recorded late finish is never changed.
C17_BackwardOrder ==
    [][UniqueIds => \A id \in AllIds : BackwardOrderStep(id)]_vars

\* The backward pass has recorded a provider of two consumers whose own
\* anchor is earlier than both consumers' late starts (unique ids).
C17_Witness ==
    /\ UniqueIds
    /\ \E a, b, c \in DOMAIN Tasks :
         /\ b # c /\ IsEdge(a, b) /\ IsEdge(a, c)
         /\ Tasks[a].id \in DOMAIN backward_schedule
         /\ Anchored(a)
         /\ backward_schedule[Tasks[a].id][2] = AnchorOf(a)

\* C18: for unique ids, once the forward pass runs, no task stands on the
\* forward queue twice or after it was processed, the early finish of
\* every dependency of the task about to be processed is recorded, and
\* when Ok is returned every task was processed and has an early start, so
\* neither the project-start default for a missing early finish nor the
\* assembler's fallback is used.
C18_ForwardOrder ==
    UniqueIds =>
        /\ \A id \in AllIds :
             /\ Count(forward_queue, id) <= 1
             /\ id \in visited_forward =>
                  /\ Count(forward_queue, id) = 0
                  /\ id \in DOMAIN early_start /\ id \in DOMAIN early_finish
        /\ (pc = "forward" /\ forward_queue # << >>) =>
             LET task_id == forward_queue[Len(forward_queue)]
             IN  /\ task_id \in DOMAIN task_map
                 /\ \A j \in DOMAIN task_map[task_id].dependencies :
                      task_map[task_id].dependencies[j] \in DOMAIN early_finish
        /\ (pc = "forward" \/ ReturnedOk) =>
             Cardinality(DOMAIN backward_schedule) = Len(Tasks)
        /\ ReturnedOk =>
             \A i \in DOMAIN Tasks :
                 /\ Tasks[i].id \in visited_forward
                 /\ Tasks[i].id \in DOMAIN early_start

\* The forward pass is about to process a task with two providers whose
\* early finishes differ (unique ids).
C18_Witness ==
    /\ UniqueIds /\ pc = "forward" /\ forward_queue # << >>
    /\ \E a, b, c \in DOMAIN Tasks :
         /\ Tasks[c].id = forward_queue[Len(forward_queue)]
         /\ IsEdge(a, c) /\ IsEdge(b, c)
         /\ {Tasks[a].id, Tasks[b].id} \subseteq DOMAIN early_finish
         /\ early_finish[Tasks[a].id] < early_finish[Tasks[b].id]

\* No counter was decremented below zero: none holds usize::MAX and no
\* subtraction panicked.
NoUnderflow ==
    /\ \A k \in DOMAIN unscheduled_consumers : unscheduled_consumers[k] >= 0
    /\ \A k \in DOMAIN in_degree : in_degree[k] >= 0
    /\ result[1] # "Panic"

\* C19: for every request with unique ids (cycles, repeated entries of a
\* dependencies list, unanchored tasks and unknown dependency ids
\* included) the routine returns Ok or an error, and no consumer counter or
\* in-degree is ever decremented below zero.
C19_Terminates ==
    UniqueIds => /\ <>(Done /\ result[1] \in {"Ok", "Err"})
                 /\ []NoUnderflow

\* Ok is returned for unique ids where a dependencies list names the same
\* provider twice.
C19_Witness ==
    /\ ReturnedOk /\ UniqueIds
    /\ \E b \in DOMAIN Tasks :
         /\ Len(Tasks[b].dependencies) = 2
         /\ Tasks[b].dependencies[1] = Tasks[b].dependencies[2]

\* C20 as stated: in the result of the command of lib.rs, whenever a
\* provider A and a consumer B both appear, B was scheduled before A and
\* A.end_date <= B.start_date, for every anchors map and every order in
\* which that map is iterated.
C20_LibPrecedence ==
    (lib.pc = "done" /\ lib.returned[1] = "Ok") =>
        \A i, j \in DOMAIN lib.returned[2] :
            LET A == lib.returned[2][i]
                B == lib.returned[2][j]
            IN  (\E k \in DOMAIN lib.task_map[B.id].dependencies :
                    lib.task_map[B.id].dependencies[k] = A.id)
                => /\ j < i
                   /\ A.end_date.day <= B.start_date.day


\* ---- C21
Listed == listing.pc = "listed"
Now == listing.now
Status == listing.metadata.status
\* The ends of the uncompleted tasks of the returned schedule that are not
\* before now, and the anchors that parse and are not before now.
UpcomingEnds ==
    IF ReturnedOk
    THEN { Timestamp(Output[i].end_date) :
             i \in { j \in DOMAIN Output :
                       /\ ~Output[j].completed
                       /\ Timestamp(Output[j].end_date) >= Now } }
    ELSE {}
UpcomingAnchors ==
    { Timestamp(request.anchors[k]) :
        k \in { j \in DOMAIN request.anchors :
                  /\ request.anchors[j].fmt # "bad"
                  /\ Timestamp(request.anchors[j]) >= Now } }
TaskDerived == request.anchors # << >> /\ UpcomingEnds # {}
AnchorDerived ==
    request.anchors # << >> /\ UpcomingEnds = {} /\ UpcomingAnchors # {}

\* C21: the status list_projects gives a project is empty, overdue, urgent
\* or on_track; without anchors it is empty; with a deadline taken from the
\* schedule it is urgent exactly when deadline - now is at most 2 * 24 h
\* and on_track otherwise; with a deadline taken from the nearest future
\* anchor only, urgent exactly when deadline - now is at most 5 * 24 h.
C21_ListStatus ==
    Listed =>
        /\ Status \in {"empty", "overdue", "urgent", "on_track"}
        /\ request.anchors = << >> => Status = "empty"
        /\ TaskDerived =>
             Status = IF Min(UpcomingEnds) - Now <= 2 * 24 * SecondsPerHour
                      THEN "urgent" ELSE "on_track"
        /\ AnchorDerived =>
             (Status = "urgent"
                <=> Min(UpcomingAnchors) - Now <= 5 * 24 * SecondsPerHour)

\* The same with the thresholds read as the whole days left: a deadline
\* less than 3 (6) days away is urgent.
StatusInWholeDays ==
    Listed =>
        /\ Status \in {"empty", "overdue", "urgent", "on_track"}
        /\ request.anchors = << >> => Status = "empty"
        /\ TaskDerived =>
             Status = IF Min(UpcomingEnds) - Now < 3 * 24 * SecondsPerHour
                      THEN "urgent" ELSE "on_track"
        /\ AnchorDerived =>
             Status = IF Min(UpcomingAnchors) - Now < 6 * 24 * SecondsPerHour
                      THEN "urgent" ELSE "on_track"
        /\ (request.anchors # << >> /\ UpcomingEnds = {} /\ UpcomingAnchors = {})
             => Status = "overdue"


\* ---- C22
\* The earliest late start of the returned schedule.
EarliestLateStart == Min({LateStart(j) : j \in DOMAIN Output})

\* C22: a schedule returned for a non-empty request with unique ids and
\* non-negative durations has a task without dependencies whose late start
\* is the project start, whose slack_minutes is 0 and which is critical.
C22_CriticalSource ==
    (ReturnedOk /\ Tasks # << >> /\ UniqueIds /\ NonNegativeDurations) =>
        \E i \in DOMAIN Output :
            /\ Output[i].id = Tasks[i].id
            /\ Tasks[i].dependencies = << >>
            /\ LateStart(i) = EarliestLateStart
            /\ LateStart(i) = project_start
            /\ Output[i].slack_minutes = 0
            /\ Output[i].is_critical

\* Such a schedule is returned for a request of three tasks, one of which
\* has a dependency and one of which has slack left.
C22_Witness ==
    /\ ReturnedOk /\ UniqueIds /\ NonNegativeDurations
    /\ Len(Tasks) = 3
    /\ \E i \in DOMAIN Tasks : Tasks[i].dependencies # << >>
    /\ \E i \in DOMAIN Output : Output[i].slack_minutes > 0 /\ ~Output[i].is_critical
    /\ \E i \in DOMAIN Output :
          Tasks[i].dependencies = << >> /\ Output[i].slack_minutes = 0



\* ---- C23
\* The completeness check is about to run on a non-empty tasks list with
\* no task recorded by the backward pass.
NothingRecorded ==
    pc = "backward" /\ queue = << >> /\ Tasks # << >> /\ backward_schedule = << >>

\* C23: no request makes the routine return CycleDetected; when the tasks
\* list is non-empty and the backward pass recorded no task, the
\* completeness check returns NoEndDateComputed with the names of the
\* tasks.
C23_NoCycleDetected ==
    /\ [](~ReturnedErr("CycleDetected"))
    /\ [][NothingRecorded =>
            /\ pc' = "done"
            /\ result'[1] = "Err" /\ result'[2] = "NoEndDateComputed"
            /\ result'[3] = <<"list", [i \in DOMAIN Tasks |-> Tasks[i].name]>>]_vars

\* The completeness check has returned NoEndDateComputed, naming every
\* task, for a request with tasks, valid anchors and no sink: the backward
\* pass recorded nothing.
C23_Witness ==
    /\ Done
    /\ Tasks # << >>
    /\ InvalidAnchors(request.anchors, task_map) = {}
    /\ HasCycle
    /\ backward_schedule = << >>
    /\ ReturnedErr("NoEndDateComputed")
    /\ result[3] = <<"list", [i \in DOMAIN Tasks |-> Tasks[i].name]>>

====
